---- MODULE Spec2Model ----
(***************************************************************************)
(* Model of image_processing/transform.py: class Transform, which turns a  *)
(* JPEG or TIFF master into derivative files through a scratch folder.     *)
(* One behaviour is a sequence of at most MaxRuns calls of one entry point *)
(* on one source file and one output folder.  Each numbered statement of   *)
(* the two entry points is one action, so that the state between two       *)
(* statements (what is on disk when an error is raised) is visible.        *)
(***************************************************************************)
EXTENDS Integers, Sequences, FiniteSets, TLC

VARIABLES
    pc,               \* position of the call in transform.py
    entry,            \* "jpg" or "tiff": which entry point the caller uses
    opts,             \* keyword arguments of the current call
    source_file,      \* path of the caller's file (jpg_file / tiff_file)
    fs,               \* the file system: path -> content
    scratch_dir,      \* does the folder made by mkdtemp exist
    generated_files,  \* the local list generated_files
    pending,          \* "none", "return", or the exception in flight
    failed_step,      \* the pc at which the exception in flight was raised
    outcome,          \* what the caller has received: "none", "ok" or an error
    returned,         \* the list the caller has received
    steps,            \* the statements executed by the current call, in order
    written,          \* the output paths written by the current call, in order
    rmtree_calls,     \* how often the current call has called shutil.rmtree
    rmtree_ok,        \* did the last shutil.rmtree remove the whole folder
    image_xmp_file,   \* the libxmp handle of extract_xmp: "none", "open", "closed"
    xmp,              \* the value get_xmp returned: "none", "packet" or "None"
    close_calls,      \* how often the current call has called close_file
    src0,             \* content of the source file when the call started
    out0,             \* the output paths that existed when the call started
    xmp0,             \* content of the metadata sidecar when the call started
    runs,             \* number of calls made so far
    \* the suitability check of validation, taken on its own
    s_image,          \* the image file handed to the check
    s_mode,           \* its colour mode: "colour", "greyscale" or "bilevel"
    s_allow,          \* the argument allow_no_icc_profile_for_greyscale
    s_result,         \* "unchecked", "ok" or "ValidationError"
    \* two calls running at the same time, each with its own output folder
    c_pc,             \* position of each call
    c_entry,          \* entry point of each call
    c_opts,           \* keyword arguments of each call
    c_scratch,        \* the folder mkdtemp gave to each call, or "none"
    c_dirs,           \* the scratch folders that exist
    c_fs,             \* path -> "absent", "external" or the call that wrote it last
    c_failed,         \* has a statement of the call raised
    c_result,         \* "none", "ok" or "error"
    c_foreign         \* has a call touched a folder that belongs to the other

\* the variables of one call of an entry point
mainv == <<pc, entry, opts, source_file, fs, scratch_dir, generated_files, pending,
           failed_step, outcome, returned, steps, written, rmtree_calls, rmtree_ok,
           image_xmp_file, xmp, close_calls, src0, out0, xmp0, runs>>

\* the variables of the suitability check
suitv == <<s_image, s_mode, s_allow, s_result>>

\* the variables of the two concurrent calls
concv == <<c_pc, c_entry, c_opts, c_scratch, c_dirs, c_fs, c_failed, c_result,
           c_foreign>>

\* the variables no statement of the entry points touches
otherv == <<suitv, concv>>

vars == <<mainv, otherv>>

\* Number of successive calls into the same output folder.
MaxRuns == 2

(***************************************************************************)
(* Paths.  The output folder is fixed, so a path inside it is modelled by  *)
(* its file name.                                                          *)
(***************************************************************************)
DEFAULT_TIFF_FILENAME == "full.tiff"
DEFAULT_XMP_FILENAME == "xmp.xml"
DEFAULT_JPG_FILENAME == "full.jpg"
DEFAULT_LOSSLESS_JP2_FILENAME == "full_lossless.jp2"
DEFAULT_LOSSY_JP2_FILENAME == "full_lossy.jp2"

\* A source file outside the output folder.
SrcPath == "source"
\* os.path.join(scratch_output_folder, str(uuid4()) + '.tiff')
ScratchTiff == "scratch.tiff"

OutPaths == {DEFAULT_TIFF_FILENAME, DEFAULT_XMP_FILENAME, DEFAULT_JPG_FILENAME,
             DEFAULT_LOSSLESS_JP2_FILENAME, DEFAULT_LOSSY_JP2_FILENAME}
Paths == OutPaths \cup {SrcPath, ScratchTiff}

(***************************************************************************)
(* File contents.  px is the decoded pixel data (1: the pixels of the      *)
(* master, 2: altered pixels), icc the colour profile, meta whether XMP    *)
(* metadata is embedded, offs whether the image has page offsets, valid    *)
(* whether a JP2 codestream is well formed, packets the number of XMP      *)
(* packets in a sidecar.  Two files are byte-identical iff their records   *)
(* are equal.                                                              *)
(***************************************************************************)
NoFile == [kind |-> "absent", px |-> 0, icc |-> "none", meta |-> FALSE,
           offs |-> FALSE, valid |-> FALSE, packets |-> 0]

Exists(f, p) == f[p].kind # "absent"

OutputFiles(f) == {p \in OutPaths : Exists(f, p)}

SourceImages(k) ==
    {[kind |-> k, px |-> 1, icc |-> i, meta |-> m, offs |-> o, valid |-> TRUE,
      packets |-> 0] : i \in {"none", "embedded"}, m \in BOOLEAN, o \in BOOLEAN}

(***************************************************************************)
(* The collaborators format_converter, validation and libxmp: what a       *)
(* successful call leaves in the destination file.                         *)
(***************************************************************************)
\* resized, lossy JPEG of a TIFF
convert_to_jpg(c) == [c EXCEPT !.kind = "jpg", !.px = 2, !.offs = FALSE]

\* TIFF of a JPEG; '-strip' drops the embedded metadata
convert_to_tiff(c, options) ==
    [c EXCEPT !.kind = "tiff", !.meta = IF "-strip" \in options THEN FALSE ELSE @]

\* removes the page offsets
repage_image(c) == [c EXCEPT !.offs = FALSE]

\* embeds the configured profile
convert_tiff_colour_profile(c) == [c EXCEPT !.icc = "srgb"]

\* kdu_compress: faithful says whether the pixels survived, ok whether the
\* codestream is well formed
convert_to_jpeg2000(c, faithful, ok) ==
    [c EXCEPT !.kind = "jp2", !.px = IF faithful THEN @ ELSE 2, !.offs = FALSE,
              !.valid = ok]

\* validation.validate_jp2 raises ValidationError iff this is FALSE
validate_jp2(c) == c.kind = "jp2" /\ c.valid

\* validation.generate_pixel_checksum: a digest of the pixels alone
generate_pixel_checksum(c) == c.px

\* io.open(path, 'a'): keeps an existing file, creates an empty one otherwise
open_append(c) == IF c.kind = "absent" THEN [NoFile EXCEPT !.kind = "xmp"] ELSE c

(***************************************************************************)
(* Initial states: one source image, an empty output folder.  The source   *)
(* lies outside the output folder, or inside it under the name the entry   *)
(* point gives to its copy of the source.                                  *)
(***************************************************************************)
SourceInOutput(e) == IF e = "jpg" THEN DEFAULT_JPG_FILENAME ELSE DEFAULT_TIFF_FILENAME

NoOpts == [save_xmp |-> FALSE, include_tiff |-> FALSE, repage_image |-> FALSE,
           strip_embedded_metadata |-> FALSE, check_lossless |-> FALSE]

\* no suitability check is going on
SuitabilityIdle ==
    /\ s_image = NoFile
    /\ s_mode = "none"
    /\ s_allow = FALSE
    /\ s_result = "idle"

(***************************************************************************)
(* Two concurrent calls, named A and B.  A path is a pair of a folder and  *)
(* a file name.  Each call has its own output folder; both read the same   *)
(* source file.                                                            *)
(***************************************************************************)
Calls == {"A", "B"}

Other(p) == IF p = "A" THEN "B" ELSE "A"

\* output_folder of each call
Out(p) == IF p = "A" THEN "outA" ELSE "outB"

\* the names tempfile.mkdtemp can give
TmpNames == {"image_ingest_1", "image_ingest_2"}

\* str(uuid4()) + '.tiff' of each call
Uuid(p) == IF p = "A" THEN "uuidA.tiff" ELSE "uuidB.tiff"

CSrc == <<"src", SrcPath>>

CPaths == ({Out(p) : p \in Calls} \X OutPaths)
          \cup (TmpNames \X {Uuid(p) : p \in Calls})
          \cup {CSrc}

\* no concurrent calls are going on
ConcurrentIdle ==
    /\ c_pc = [p \in Calls |-> "idle"]
    /\ c_entry = [p \in Calls |-> "none"]
    /\ c_opts = [p \in Calls |-> NoOpts]
    /\ c_scratch = [p \in Calls |-> "none"]
    /\ c_dirs = {}
    /\ c_fs = [q \in CPaths |-> IF q = CSrc THEN "external" ELSE "absent"]
    /\ c_failed = [p \in Calls |-> FALSE]
    /\ c_result = [p \in Calls |-> "none"]
    /\ c_foreign = FALSE

Init ==
    /\ SuitabilityIdle
    /\ ConcurrentIdle
    /\ entry \in {"jpg", "tiff"}
    /\ source_file \in {SrcPath, SourceInOutput(entry)}
    /\ \E img \in SourceImages(entry) :
          fs = [p \in Paths |-> IF p = source_file THEN img ELSE NoFile]
    /\ pc = "idle"
    /\ opts = NoOpts
    /\ scratch_dir = FALSE
    /\ generated_files = <<>>
    /\ pending = "none"
    /\ failed_step = "none"
    /\ outcome = "none"
    /\ returned = <<>>
    /\ steps = <<>>
    /\ written = <<>>
    /\ rmtree_calls = 0
    /\ rmtree_ok = FALSE
    /\ image_xmp_file = "none"
    /\ xmp = "none"
    /\ close_calls = 0
    /\ src0 = fs[source_file]
    /\ out0 = OutputFiles(fs)
    /\ xmp0 = fs[DEFAULT_XMP_FILENAME]
    /\ runs = 0

(***************************************************************************)
(* Helpers of the actions.                                                 *)
(***************************************************************************)
callv == <<entry, opts, source_file, src0, out0, xmp0, runs, otherv>>
resultv == <<outcome, returned>>
rmv == <<rmtree_calls, rmtree_ok>>
xmpv == <<image_xmp_file, xmp, close_calls>>

\* the statement at pc is executed
Step == steps' = Append(steps, pc)

\* the statement at pc raises err: control goes to the finally clause
Raise(err) ==
    /\ pending' = err
    /\ failed_step' = pc
    /\ pc' = "finally"

\* a file of the output folder is written
WriteOutput(p, c) ==
    /\ fs' = [fs EXCEPT ![p] = c]
    /\ written' = Append(written, p)

\* the statement after the save_xmp block of each entry point
AfterXmp ==
    IF entry = "jpg" THEN "g_convert_to_tiff"
    ELSE IF opts.include_tiff THEN "t_include_tiff" ELSE "t_scratch_copy"

AfterJpg_always_xmp == "x_open"

\* the statement after the jpeg derivative has been made
AfterJpg == IF opts.save_xmp THEN "x_open" ELSE AfterXmp

\* the values of a fresh call
StartCall(o) ==
    /\ pc \in {"idle", "done"}
    /\ runs < MaxRuns
    /\ runs' = runs + 1
    /\ opts' = o
    /\ src0' = fs[source_file]
    /\ out0' = OutputFiles(fs)
    /\ xmp0' = fs[DEFAULT_XMP_FILENAME]
    /\ generated_files' = <<>>
    /\ pending' = "none"
    /\ failed_step' = "none"
    /\ returned' = <<>>
    /\ steps' = <<>>
    /\ written' = <<>>
    /\ rmtree_calls' = 0
    /\ rmtree_ok' = FALSE
    /\ image_xmp_file' = "none"
    /\ xmp' = "none"
    /\ close_calls' = 0
    /\ scratch_dir' = FALSE
    /\ fs' = [fs EXCEPT ![ScratchTiff] = NoFile]
    \* a keyword the signature does not have is a TypeError before the body
    /\ IF o.check_lossless
       THEN pc' = "done" /\ outcome' = "TypeError"
       ELSE pc' = "mkdtemp" /\ outcome' = "none"
    /\ UNCHANGED <<entry, source_file, otherv>>

(***************************************************************************)
(* The two entry points: binding of the arguments.                         *)
(***************************************************************************)
generate_derivatives_from_jpg ==
    /\ entry = "jpg"
    /\ \E strip, sx, cl \in BOOLEAN :
          StartCall([NoOpts EXCEPT !.strip_embedded_metadata = strip,
                                   !.save_xmp = sx, !.check_lossless = cl])

generate_derivatives_from_tiff ==
    /\ entry = "tiff"
    /\ \E it, sx, rp, cl \in BOOLEAN :
          StartCall([NoOpts EXCEPT !.include_tiff = it, !.save_xmp = sx,
                                   !.repage_image = rp, !.check_lossless = cl])

\* scratch_output_folder = tempfile.mkdtemp(prefix='image_ingest_'), before the try
mkdtemp ==
    /\ pc = "mkdtemp"
    /\ Step
    /\ \/ /\ scratch_dir' = TRUE
          /\ pc' = IF entry = "jpg" THEN "g_copy" ELSE "t_convert_to_jpg"
          /\ UNCHANGED <<outcome, pending, failed_step>>
       \/ /\ pc' = "done"
          /\ outcome' = "OSError"
          /\ pending' = "OSError"
          /\ failed_step' = pc
          /\ UNCHANGED scratch_dir
    /\ UNCHANGED <<callv, fs, generated_files, returned, written, rmv, xmpv>>

(***************************************************************************)
(* Building blocks of the statements.                                      *)
(***************************************************************************)
\* shutil.copy(src, dst) into the output folder, then control goes to next
CopyToOutput(src, dst, next) ==
    /\ Step
    /\ IF src = dst
       THEN \* shutil.copy refuses to copy a file onto itself
            /\ Raise("Error")
            /\ UNCHANGED <<fs, written>>
       ELSE \/ /\ WriteOutput(dst, fs[src])
               /\ pc' = next
               /\ UNCHANGED <<pending, failed_step>>
            \/ /\ Raise("IOError")
               /\ UNCHANGED <<fs, written>>

\* a converter call that writes c to the output path dst, or raises err
ConvertToOutput(dst, c, err, next) ==
    /\ Step
    /\ \/ /\ WriteOutput(dst, c)
          /\ pc' = next
          /\ UNCHANGED <<pending, failed_step>>
       \/ /\ Raise(err)
          /\ UNCHANGED <<fs, written>>

\* a call that writes c to the file target, which is no derivative, or raises err
WriteInPlace(target, c, err, next) ==
    /\ Step
    /\ \/ /\ fs' = [fs EXCEPT ![target] = c]
          /\ pc' = next
          /\ UNCHANGED <<pending, failed_step>>
       \/ /\ Raise(err)
          /\ UNCHANGED fs
    /\ UNCHANGED written

\* validation.validate_jp2(path) when check is set; no call at all otherwise
ValidateStep(path, check, next) ==
    /\ Step
    /\ IF check /\ ~validate_jp2(fs[path])
       THEN Raise("ValidationError")
       ELSE pc' = next /\ UNCHANGED <<pending, failed_step>>
    /\ UNCHANGED <<fs, written>>

(***************************************************************************)
(* generate_derivatives_from_tiff, lines 93-115.                           *)
(***************************************************************************)
\* self.format_converter.convert_to_jpg(tiff_file, jpeg_filepath)
t_convert_to_jpg ==
    /\ pc = "t_convert_to_jpg"
    /\ ConvertToOutput(DEFAULT_JPG_FILENAME, convert_to_jpg(fs[source_file]),
                       "ImageMagickError", AfterJpg)
    /\ generated_files' = IF pc' = "finally" THEN generated_files
                          ELSE <<DEFAULT_JPG_FILENAME>>
    /\ UNCHANGED <<callv, scratch_dir, resultv, rmv, xmpv>>

t_include_tiff_over_jpg ==
    /\ pc = "t_include_tiff"
    /\ CopyToOutput(source_file, DEFAULT_JPG_FILENAME, "t_scratch_copy")
    /\ generated_files' = IF pc' = "finally" THEN generated_files
                          ELSE Append(generated_files, DEFAULT_TIFF_FILENAME)
    /\ UNCHANGED <<callv, scratch_dir, resultv, rmv, xmpv>>

\* if include_tiff: shutil.copy(tiff_file, tiff_filepath)
t_include_tiff ==
    /\ pc = "t_include_tiff"
    /\ CopyToOutput(source_file, DEFAULT_TIFF_FILENAME, "t_scratch_copy")
    /\ generated_files' = IF pc' = "finally" THEN generated_files
                          ELSE Append(generated_files, DEFAULT_TIFF_FILENAME)
    /\ UNCHANGED <<callv, scratch_dir, resultv, rmv, xmpv>>

t_scratch_copy_into_output ==
    /\ pc = "t_scratch_copy"
    /\ CopyToOutput(source_file, DEFAULT_TIFF_FILENAME,
                    IF opts.repage_image THEN "t_repage" ELSE "j_lossless")
    /\ UNCHANGED <<callv, scratch_dir, generated_files, resultv, rmv, xmpv>>

\* shutil.copy(tiff_file, scratch_tiff_filepath)
t_scratch_copy ==
    /\ pc = "t_scratch_copy"
    /\ WriteInPlace(ScratchTiff, fs[source_file], "IOError",
                    IF opts.repage_image THEN "t_repage" ELSE "j_lossless")
    /\ UNCHANGED <<callv, scratch_dir, generated_files, resultv, rmv, xmpv>>

\* self.format_converter.repage_image(target, target)
RepageAt(target) ==
    /\ pc = "t_repage"
    /\ WriteInPlace(target, repage_image(fs[target]), "ImageMagickError", "j_lossless")
    /\ UNCHANGED <<callv, scratch_dir, generated_files, resultv, rmv, xmpv>>

t_repage_source == RepageAt(source_file)

t_repage_output == RepageAt(DEFAULT_TIFF_FILENAME)

\* if repage_image: repage_image(scratch_tiff_filepath, scratch_tiff_filepath)
t_repage == RepageAt(ScratchTiff)

(***************************************************************************)
(* generate_derivatives_from_jpg, lines 57-68.                             *)
(***************************************************************************)
g_copy_reencoding ==
    /\ pc = "g_copy"
    /\ ConvertToOutput(DEFAULT_JPG_FILENAME, convert_to_jpg(fs[source_file]),
                       "ImageMagickError", AfterJpg)
    /\ generated_files' = IF pc' = "finally" THEN generated_files
                          ELSE <<DEFAULT_JPG_FILENAME>>
    /\ UNCHANGED <<callv, scratch_dir, resultv, rmv, xmpv>>

\* shutil.copy(jpg_file, jpeg_filepath); generated_files = [jpeg_filepath]
g_copy ==
    /\ pc = "g_copy"
    /\ CopyToOutput(source_file, DEFAULT_JPG_FILENAME, AfterJpg)
    /\ generated_files' = IF pc' = "finally" THEN generated_files
                          ELSE <<DEFAULT_JPG_FILENAME>>
    /\ UNCHANGED <<callv, scratch_dir, resultv, rmv, xmpv>>

\* tif_conversion_options = ['-strip'] if strip_embedded_metadata else []
tif_conversion_options == IF opts.strip_embedded_metadata THEN {"-strip"} ELSE {}

\* self.format_converter.convert_to_tiff(jpeg_filepath, scratch_tiff_filepath, options)
g_convert_to_tiff ==
    /\ pc = "g_convert_to_tiff"
    /\ WriteInPlace(ScratchTiff,
                    convert_to_tiff(fs[DEFAULT_JPG_FILENAME], tif_conversion_options),
                    "ImageMagickError", "j_lossless")
    /\ UNCHANGED <<callv, scratch_dir, generated_files, resultv, rmv, xmpv>>

(***************************************************************************)
(* extract_xmp(image_file, xmp_file_path), lines 139-150, called when      *)
(* save_xmp is set: on the jpeg copy by the jpg entry point, on the source *)
(* by the tiff entry point.                                                *)
(***************************************************************************)
image_file == IF entry = "jpg" THEN DEFAULT_JPG_FILENAME ELSE source_file

RaiseInTry_no_finally(err) == Raise(err)

\* the statement at pc raises err inside the try block of extract_xmp
RaiseInTry(err) ==
    /\ pending' = err
    /\ failed_step' = pc
    /\ pc' = "x_close"

\* image_xmp_file = libxmp.XMPFiles(file_path=image_file), before the try
x_open ==
    /\ pc = "x_open"
    /\ Step
    /\ \/ /\ image_xmp_file' = "open"
          /\ pc' = "x_get_xmp"
          /\ UNCHANGED <<pending, failed_step>>
       \/ /\ Raise("XMPError")
          /\ UNCHANGED image_xmp_file
    /\ UNCHANGED <<callv, fs, written, scratch_dir, generated_files, resultv, rmv, xmp,
                   close_calls>>

\* xmp = image_xmp_file.get_xmp(): None when the image embeds no XMP
x_get_xmp ==
    /\ pc = "x_get_xmp"
    /\ Step
    /\ \/ /\ xmp' = IF fs[image_file].meta THEN "packet" ELSE "None"
          /\ pc' = "x_write"
          /\ UNCHANGED <<pending, failed_step>>
       \/ /\ RaiseInTry("XMPError")
          /\ UNCHANGED xmp
    /\ UNCHANGED <<callv, fs, written, scratch_dir, generated_files, resultv, rmv,
                   image_xmp_file, close_calls>>

\* a write that opens the sidecar with mode 'w': the prior content is lost
x_write_truncating ==
    /\ pc = "x_write"
    /\ Step
    /\ \/ /\ RaiseInTry("IOError")
          /\ UNCHANGED <<fs, written>>
       \/ /\ xmp = "None"
          /\ WriteOutput(DEFAULT_XMP_FILENAME, [NoFile EXCEPT !.kind = "xmp"])
          /\ RaiseInTry("AttributeError")
       \/ /\ xmp = "packet"
          /\ WriteOutput(DEFAULT_XMP_FILENAME,
                         [NoFile EXCEPT !.kind = "xmp", !.packets = 1])
          /\ pc' = "x_close"
          /\ UNCHANGED <<pending, failed_step>>
    /\ UNCHANGED <<callv, scratch_dir, generated_files, resultv, rmv, xmpv>>

\* with io.open(xmp_file_path, 'a') as f: f.write(xmp.serialize_to_unicode())
x_write ==
    /\ pc = "x_write"
    /\ Step
    /\ \/ \* io.open fails
          /\ RaiseInTry("IOError")
          /\ UNCHANGED <<fs, written>>
       \/ \* the file is open; None has no serialize_to_unicode
          /\ xmp = "None"
          /\ WriteOutput(DEFAULT_XMP_FILENAME, open_append(fs[DEFAULT_XMP_FILENAME]))
          /\ RaiseInTry("AttributeError")
       \/ \* the packet is appended
          /\ xmp = "packet"
          /\ WriteOutput(DEFAULT_XMP_FILENAME,
                         [open_append(fs[DEFAULT_XMP_FILENAME]) EXCEPT !.packets = @ + 1])
          /\ pc' = "x_close"
          /\ UNCHANGED <<pending, failed_step>>
    /\ UNCHANGED <<callv, scratch_dir, generated_files, resultv, rmv, xmpv>>

x_close_swallowing ==
    /\ pc = "x_close"
    /\ Step
    /\ image_xmp_file' = "closed"
    /\ close_calls' = close_calls + 1
    /\ generated_files' = Append(generated_files, DEFAULT_XMP_FILENAME)
    /\ pc' = AfterXmp
    /\ pending' = "none"
    /\ UNCHANGED <<callv, fs, written, scratch_dir, failed_step, resultv, rmv, xmp>>

\* finally: image_xmp_file.close_file(); then generated_files += [xmp_file_path]
x_close ==
    /\ pc = "x_close"
    /\ Step
    /\ image_xmp_file' = "closed"
    /\ close_calls' = close_calls + 1
    /\ IF pending = "none"
       THEN /\ generated_files' = Append(generated_files, DEFAULT_XMP_FILENAME)
            /\ pc' = AfterXmp
       ELSE /\ pc' = "finally"
            /\ UNCHANGED generated_files
    /\ UNCHANGED <<callv, fs, written, scratch_dir, pending, failed_step, resultv, rmv,
                   xmp>>

(***************************************************************************)
(* generate_jp2_derivatives_from_tiff(scratch_tiff_file, output_folder),   *)
(* lines 123-136.                                                          *)
(***************************************************************************)
jp2v == <<callv, scratch_dir, generated_files, resultv, rmv, xmpv>>

j_lossless_after_profile ==
    /\ pc = "j_lossless"
    /\ \E faithful, ok \in BOOLEAN :
          ConvertToOutput(DEFAULT_LOSSLESS_JP2_FILENAME,
                          convert_to_jpeg2000(convert_tiff_colour_profile(fs[ScratchTiff]),
                                              faithful, ok),
                          "KakaduError", "j_validate_lossless")
    /\ UNCHANGED jp2v

\* convert_to_jpeg2000(scratch_tiff_file, lossless_filepath, lossless=True)
j_lossless ==
    /\ pc = "j_lossless"
    /\ \E faithful, ok \in BOOLEAN :
          ConvertToOutput(DEFAULT_LOSSLESS_JP2_FILENAME,
                          convert_to_jpeg2000(fs[ScratchTiff], faithful, ok),
                          "KakaduError", "j_validate_lossless")
    /\ UNCHANGED jp2v

j_validate_lossless_skipped ==
    /\ pc = "j_validate_lossless"
    /\ ValidateStep(DEFAULT_LOSSLESS_JP2_FILENAME, FALSE, "j_profile")
    /\ UNCHANGED jp2v

\* validation.validate_jp2(lossless_filepath)
j_validate_lossless ==
    /\ pc = "j_validate_lossless"
    /\ ValidateStep(DEFAULT_LOSSLESS_JP2_FILENAME, TRUE, "j_profile")
    /\ UNCHANGED jp2v

\* convert_tiff_colour_profile(target, target, self.icc_profile)
ProfileAt(target) ==
    /\ pc = "j_profile"
    /\ WriteInPlace(target, convert_tiff_colour_profile(fs[target]),
                    "ImageMagickError", "j_lossy")
    /\ UNCHANGED jp2v

\* convert_tiff_colour_profile(scratch_tiff_file, scratch_tiff_file, self.icc_profile)
j_profile == ProfileAt(ScratchTiff)

\* convert_colour_to_jpeg2000(scratch_tiff_file, lossy_filepath, lossless=False)
j_lossy ==
    /\ pc = "j_lossy"
    /\ \E ok \in BOOLEAN :
          ConvertToOutput(DEFAULT_LOSSY_JP2_FILENAME,
                          convert_to_jpeg2000(fs[ScratchTiff], FALSE, ok),
                          "KakaduError", "j_validate_lossy")
    /\ UNCHANGED jp2v

\* validation.validate_jp2(lossy_filepath)
j_validate_lossy ==
    /\ pc = "j_validate_lossy"
    /\ ValidateStep(DEFAULT_LOSSY_JP2_FILENAME, TRUE, "j_return")
    /\ UNCHANGED jp2v

j_return_swapped ==
    /\ pc = "j_return"
    /\ Step
    /\ generated_files' = generated_files \o
                          <<DEFAULT_LOSSY_JP2_FILENAME, DEFAULT_LOSSLESS_JP2_FILENAME>>
    /\ pending' = "return"
    /\ pc' = "finally"
    /\ UNCHANGED <<callv, fs, written, scratch_dir, failed_step, resultv, rmv, xmpv>>

\* return [lossless_filepath, lossy_filepath]; generated_files += ...; return generated_files
j_return ==
    /\ pc = "j_return"
    /\ Step
    /\ generated_files' = generated_files \o
                          <<DEFAULT_LOSSLESS_JP2_FILENAME, DEFAULT_LOSSY_JP2_FILENAME>>
    /\ pending' = "return"
    /\ pc' = "finally"
    /\ UNCHANGED <<callv, fs, written, scratch_dir, failed_step, resultv, rmv, xmpv>>

(***************************************************************************)
(* The finally clause of both entry points, lines 73-75 and 119-121.       *)
(***************************************************************************)
\* what the caller receives once the finally clause has run
Deliver ==
    /\ pc' = "done"
    /\ outcome' = IF pending = "return" THEN "ok" ELSE pending
    /\ returned' = IF pending = "return" THEN generated_files ELSE <<>>

\* shutil.rmtree(scratch_output_folder, ignore_errors): removed says whether the
\* folder went away, kept whether the scratch tiff survived a failed removal
Rmtree(ignore_errors) ==
    /\ pc = "finally"
    /\ Step
    /\ rmtree_calls' = rmtree_calls + 1
    /\ \E removed, kept \in BOOLEAN :
          /\ rmtree_ok' = removed
          /\ scratch_dir' = ~removed
          /\ fs' = IF removed \/ ~kept THEN [fs EXCEPT ![ScratchTiff] = NoFile] ELSE fs
          /\ IF removed \/ ignore_errors
             THEN Deliver
             ELSE pc' = "done" /\ outcome' = "OSError" /\ returned' = <<>>
    /\ UNCHANGED <<callv, written, generated_files, pending, failed_step, xmpv>>

finally_rmtree_escalating == Rmtree(FALSE)

finally_rmtree_on_return_only ==
    IF pending = "return"
    THEN Rmtree(TRUE)
    ELSE /\ pc = "finally"
         /\ Step
         /\ Deliver
         /\ UNCHANGED <<callv, fs, written, scratch_dir, generated_files, pending,
                        failed_step, rmv, xmpv>>

finally_rmtree_rollback ==
    /\ pc = "finally"
    /\ Step
    /\ rmtree_calls' = rmtree_calls + 1
    /\ rmtree_ok' = TRUE
    /\ scratch_dir' = FALSE
    /\ fs' = [p \in Paths |->
                IF p = ScratchTiff
                   \/ (pending # "return" /\ \E i \in 1..Len(written) : written[i] = p)
                THEN NoFile ELSE fs[p]]
    /\ Deliver
    /\ UNCHANGED <<callv, written, generated_files, pending, failed_step, xmpv>>

\* finally: if scratch_output_folder: shutil.rmtree(scratch_output_folder, ignore_errors=True)
\* (mkdtemp returns a non-empty path, so the test always passes)
finally_rmtree == Rmtree(TRUE)

Next ==
    \/ generate_derivatives_from_jpg
    \/ generate_derivatives_from_tiff
    \/ mkdtemp
    \/ t_convert_to_jpg
    \/ t_include_tiff
    \/ t_scratch_copy
    \/ t_repage
    \/ g_copy
    \/ g_convert_to_tiff
    \/ x_open
    \/ x_get_xmp
    \/ x_write
    \/ x_close
    \/ j_lossless
    \/ j_validate_lossless
    \/ j_profile
    \/ j_lossy
    \/ j_validate_lossy
    \/ j_return
    \/ finally_rmtree

Spec == Init /\ [][Next]_vars

(***************************************************************************)
(* Vocabulary of the properties.                                           *)
(***************************************************************************)
InSeq(s, x) == \E i \in 1..Len(s) : s[i] = x

Done == pc = "done"

\* the defaults of the keywords of generate_derivatives_from_tiff
DefaultTiffOpts == [NoOpts EXCEPT !.include_tiff = TRUE]

\* the current call has created its scratch folder
Created == Len(steps) > 0 /\ failed_step # "mkdtemp"

\* the errors each statement can raise
StepErrors(step) ==
    CASE step = "mkdtemp" -> {"OSError"}
      [] step \in {"t_convert_to_jpg", "t_repage", "g_convert_to_tiff", "j_profile"}
            -> {"ImageMagickError"}
      [] step \in {"t_include_tiff", "g_copy", "t_scratch_copy"} -> {"IOError", "Error"}
      [] step \in {"x_open", "x_get_xmp"} -> {"XMPError"}
      [] step = "x_write" -> {"IOError", "AttributeError"}
      [] step \in {"j_lossless", "j_lossy"} -> {"KakaduError"}
      [] step \in {"j_validate_lossless", "j_validate_lossy"} -> {"ValidationError"}
      [] OTHER -> {}

(***************************************************************************)
(* C1 as stated: when a call that created a scratch folder has terminated, *)
(* normally or by an error, the scratch folder and its content are gone.   *)
(***************************************************************************)
C1_ScratchRemoved ==
    (Done /\ Created) => ~scratch_dir /\ ~Exists(fs, ScratchTiff)

(***************************************************************************)
(* C1 amended: when a call that created a scratch folder has terminated,   *)
(* normally or by an error, it has called shutil.rmtree on the folder      *)
(* exactly once, and the folder and its content are gone unless that       *)
(* removal itself failed.                                                  *)
(***************************************************************************)
C1_ScratchRemovalAttempted ==
    (Done /\ Created) =>
        /\ rmtree_calls = 1
        /\ rmtree_ok => ~scratch_dir /\ ~Exists(fs, ScratchTiff)

\* a call that failed after it had filled its scratch folder has removed it
C1_Witness ==
    /\ Done
    /\ failed_step = "j_validate_lossless"
    /\ rmtree_calls = 1
    /\ ~scratch_dir

(***************************************************************************)
(* C2: a call of the tiff entry point with default options on a source     *)
(* without ICC profile writes no file to the output folder and ends with a *)
(* ValidationError.                                                        *)
(***************************************************************************)
C2_FailsBeforeAnyOutput ==
    (entry = "tiff" /\ runs > 0 /\ opts = DefaultTiffOpts /\ src0.icc = "none") =>
        /\ written = <<>>
        /\ Done => outcome = "ValidationError"

(***************************************************************************)
(* C3: a call with check_lossless runs the pipeline, and it does not       *)
(* return normally with a lossless JP2 whose pixel checksum differs from   *)
(* the checksum of the source: it fails with a ValidationError.            *)
(***************************************************************************)
C3_CheckLossless ==
    (Done /\ opts.check_lossless) =>
        /\ InSeq(steps, "j_lossless") \/ failed_step # "none"
        /\ ( /\ InSeq(written, DEFAULT_LOSSLESS_JP2_FILENAME)
             /\ generate_pixel_checksum(fs[DEFAULT_LOSSLESS_JP2_FILENAME])
                    # generate_pixel_checksum(src0) )
           => outcome = "ValidationError"

(***************************************************************************)
(* C4: a call returns normally only if the lossless and the lossy JP2 it   *)
(* wrote are structurally valid; and once the validation of a structurally *)
(* invalid lossless JP2 has run, the call is failing with a                *)
(* ValidationError raised there, and neither the profile step nor the      *)
(* lossy conversion has run.                                               *)
(***************************************************************************)
C4_StructuralValidation ==
    /\ (Done /\ outcome = "ok") =>
          /\ InSeq(steps, "j_validate_lossless") /\ InSeq(steps, "j_validate_lossy")
          /\ validate_jp2(fs[DEFAULT_LOSSLESS_JP2_FILENAME])
          /\ validate_jp2(fs[DEFAULT_LOSSY_JP2_FILENAME])
    /\ ( /\ InSeq(written, DEFAULT_LOSSLESS_JP2_FILENAME)
         /\ ~validate_jp2(fs[DEFAULT_LOSSLESS_JP2_FILENAME])
         /\ pc # "j_validate_lossless" ) =>
            /\ failed_step = "j_validate_lossless"
            /\ pending = "ValidationError"
            /\ Done => outcome = "ValidationError"
            /\ ~InSeq(steps, "j_profile") /\ ~InSeq(steps, "j_lossy")
            /\ fs[ScratchTiff].icc # "srgb"
            /\ ~InSeq(written, DEFAULT_LOSSY_JP2_FILENAME)

\* a call has failed at the validation of its lossless JP2
C4_Witness ==
    /\ Done
    /\ outcome = "ValidationError"
    /\ failed_step = "j_validate_lossless"
    /\ ~validate_jp2(fs[DEFAULT_LOSSLESS_JP2_FILENAME])

C6_FailureAborts ==
    failed_step # "none" =>
        /\ \A i \in 1..Len(steps) : steps[i] = failed_step =>
              \A j \in (i + 1)..Len(steps) : steps[j] \in {"x_close", "finally"}
        /\ pending \in StepErrors(failed_step)
        /\ Done => /\ outcome = pending
                   /\ returned = <<>>
                   /\ failed_step # "mkdtemp" => rmtree_calls = 1

\* a call has failed in the middle of the pipeline
C6_Witness ==
    /\ Done
    /\ failed_step = "j_profile"
    /\ outcome = "ImageMagickError"
    /\ rmtree_calls = 1

(***************************************************************************)
(* C7: when the removal of the scratch folder failed, the caller still     *)
(* receives what the body produced: the list of generated files if it      *)
(* returned, the error it raised otherwise.                                *)
(***************************************************************************)
C7_CleanupFailureKeepsOutcome ==
    (Done /\ rmtree_calls = 1 /\ ~rmtree_ok) =>
        /\ pending = "return" => outcome = "ok" /\ returned = generated_files
        /\ pending # "return" => outcome = pending /\ outcome \in StepErrors(failed_step)

\* a call whose body returned and whose scratch folder could not be removed
C7_Witness ==
    /\ Done
    /\ rmtree_calls = 1 /\ ~rmtree_ok /\ scratch_dir
    /\ outcome = "ok"
    /\ Len(returned) > 0

(***************************************************************************)
(* C8: a call of the jpg entry point with save_xmp that returns normally,  *)
(* started on an empty output folder, leaves exactly the jpg copy, the     *)
(* lossless jp2 and the xmp sidecar in the output folder.                  *)
(***************************************************************************)
C8_JpgThreeFiles ==
    (Done /\ entry = "jpg" /\ opts.save_xmp /\ outcome = "ok" /\ out0 = {}) =>
        OutputFiles(fs) = {DEFAULT_JPG_FILENAME, DEFAULT_LOSSLESS_JP2_FILENAME,
                           DEFAULT_XMP_FILENAME}

C10_TiffDefaultThreeFiles ==
    (Done /\ entry = "tiff" /\ opts = DefaultTiffOpts /\ outcome = "ok" /\ out0 = {}) =>
        OutputFiles(fs) = {DEFAULT_JPG_FILENAME, DEFAULT_LOSSLESS_JP2_FILENAME,
                           DEFAULT_XMP_FILENAME}

(***************************************************************************)
(* C11: after a call that returns normally, started on an empty output     *)
(* folder, the xmp sidecar exists and is in the returned list iff save_xmp *)
(* was set; a call without save_xmp never runs extract_xmp and never       *)
(* writes the sidecar.                                                     *)
(***************************************************************************)
C11_XmpIffSaveXmp ==
    /\ (Done /\ outcome = "ok" /\ out0 = {}) =>
          /\ Exists(fs, DEFAULT_XMP_FILENAME) <=> opts.save_xmp
          /\ InSeq(returned, DEFAULT_XMP_FILENAME) <=> opts.save_xmp
    /\ (runs > 0 /\ ~opts.save_xmp) =>
          /\ ~InSeq(written, DEFAULT_XMP_FILENAME)
          /\ ~InSeq(steps, "x_open")

\* a call with save_xmp has returned the sidecar it wrote
C11_Witness ==
    /\ Done /\ outcome = "ok" /\ out0 = {}
    /\ opts.save_xmp
    /\ Exists(fs, DEFAULT_XMP_FILENAME)
    /\ InSeq(returned, DEFAULT_XMP_FILENAME)

(***************************************************************************)
(* C12: from the moment the jpg entry point has written its jpg copy, and  *)
(* in particular when it has returned normally, the copy in the output     *)
(* folder is byte-identical to the source, whatever strip_embedded_metadata*)
(* and save_xmp are.                                                       *)
(***************************************************************************)
C12_JpgCopyIdentical ==
    (entry = "jpg" /\ runs > 0) =>
        /\ InSeq(written, DEFAULT_JPG_FILENAME) =>
              /\ fs[DEFAULT_JPG_FILENAME] = src0
              /\ fs[DEFAULT_JPG_FILENAME] = fs[source_file]
        /\ (Done /\ outcome = "ok") => InSeq(written, DEFAULT_JPG_FILENAME)

\* a call with both options set has returned
C12_Witness ==
    /\ Done /\ entry = "jpg" /\ outcome = "ok"
    /\ opts.strip_embedded_metadata /\ opts.save_xmp
    /\ src0.meta
    /\ fs[ScratchTiff] = NoFile

(***************************************************************************)
(* C13: from the moment the tiff entry point has written its tiff copy,    *)
(* and in particular when a call with include_tiff has returned normally,  *)
(* the copy in the output folder is byte-identical to the source, also     *)
(* when repage_image is set.                                               *)
(***************************************************************************)
C13_TiffCopyIdentical ==
    (entry = "tiff" /\ runs > 0) =>
        /\ InSeq(written, DEFAULT_TIFF_FILENAME) =>
              /\ fs[DEFAULT_TIFF_FILENAME] = src0
              /\ fs[DEFAULT_TIFF_FILENAME] = fs[source_file]
        /\ (Done /\ outcome = "ok" /\ opts.include_tiff) =>
              InSeq(written, DEFAULT_TIFF_FILENAME)

\* a call that repaged an image with page offsets and kept a tiff copy has returned
C13_Witness ==
    /\ Done /\ entry = "tiff" /\ outcome = "ok"
    /\ opts.include_tiff /\ opts.repage_image
    /\ src0.offs
    /\ InSeq(steps, "t_repage") /\ InSeq(steps, "j_profile")

(***************************************************************************)
(* C14: the list a call returns is the sequence of the output files it     *)
(* wrote, in the order it wrote them, each once.                           *)
(***************************************************************************)
C14_ReturnedInGenerationOrder ==
    (Done /\ outcome = "ok") =>
        /\ returned = written
        /\ \A i, j \in 1..Len(returned) : returned[i] = returned[j] => i = j

\* a call that wrote all five derivatives has returned
C14_Witness ==
    /\ Done /\ outcome = "ok"
    /\ Len(returned) = 5
    /\ Len(written) = 5

(***************************************************************************)
(* C15 as stated: when metadata extraction has failed in a call with       *)
(* save_xmp, the call still generates the JPEG2000 derivatives.            *)
(***************************************************************************)
XmpSteps == {"x_open", "x_get_xmp", "x_write"}

C15_XmpFailureIgnored ==
    (Done /\ opts.save_xmp /\ failed_step \in XmpSteps) =>
        InSeq(steps, "j_lossless")

(***************************************************************************)
(* C15 amended: when metadata extraction has failed in a call with         *)
(* save_xmp, the call generates no JPEG2000 derivative and ends with the   *)
(* error extract_xmp raised.                                               *)
(***************************************************************************)
C15_XmpFailureAborts ==
    failed_step \in XmpSteps =>
        /\ opts.save_xmp
        /\ ~InSeq(steps, "j_lossless")
        /\ ~InSeq(written, DEFAULT_LOSSLESS_JP2_FILENAME)
        /\ ~InSeq(written, DEFAULT_LOSSY_JP2_FILENAME)
        /\ pc \in {"x_close", "finally", "done"}
        /\ Done => /\ outcome \in {"XMPError", "IOError", "AttributeError"}
                   /\ returned = <<>>

\* a call has ended with the error get_xmp raised
C15_Witness ==
    /\ Done
    /\ opts.save_xmp
    /\ failed_step = "x_get_xmp"
    /\ outcome = "XMPError"

(***************************************************************************)
(* C16: in every call the statements on the scratch tiff run in the order  *)
(* repage (if asked for), lossless conversion, validation of the lossless  *)
(* JP2, profile application, lossy conversion; the lossless JP2 carries    *)
(* the profile of the source, the lossy JP2 the applied profile.           *)
(***************************************************************************)
Before(a, b) ==
    \A i, j \in 1..Len(steps) : (steps[i] = a /\ steps[j] = b) => i < j

After(b, a) == InSeq(steps, b) => (InSeq(steps, a) /\ Before(a, b))

C16_ScratchTiffStepOrder ==
    /\ Before("t_repage", "j_lossless")
    /\ (opts.repage_image /\ entry = "tiff" /\ InSeq(steps, "j_lossless")) =>
          InSeq(steps, "t_repage")
    /\ After("j_validate_lossless", "j_lossless")
    /\ After("j_profile", "j_validate_lossless")
    /\ After("j_lossy", "j_profile")
    /\ InSeq(written, DEFAULT_LOSSLESS_JP2_FILENAME) =>
          fs[DEFAULT_LOSSLESS_JP2_FILENAME].icc = src0.icc
    /\ InSeq(written, DEFAULT_LOSSY_JP2_FILENAME) =>
          fs[DEFAULT_LOSSY_JP2_FILENAME].icc = "srgb"

\* a call that repaged has written both JP2 files and returned
C16_Witness ==
    /\ Done /\ outcome = "ok"
    /\ InSeq(steps, "t_repage")
    /\ fs[DEFAULT_LOSSLESS_JP2_FILENAME].icc # "srgb"
    /\ fs[DEFAULT_LOSSY_JP2_FILENAME].icc = "srgb"

(***************************************************************************)
(* C19: the libxmp handle is open only while extract_xmp is inside its try *)
(* block; once extract_xmp has returned or raised, a handle that was       *)
(* opened is closed, and close_file has been called exactly once.          *)
(***************************************************************************)
C19_HandleClosedOnce ==
    /\ image_xmp_file = "open" => pc \in {"x_get_xmp", "x_write", "x_close"}
    /\ close_calls = IF image_xmp_file = "closed" THEN 1 ELSE 0
    /\ (InSeq(steps, "x_open") /\ failed_step # "x_open"
          /\ pc \notin {"x_get_xmp", "x_write", "x_close"}) =>
            image_xmp_file = "closed"

\* extract_xmp has raised from the write of the sidecar and the call is over
C19_Witness ==
    /\ Done
    /\ failed_step = "x_write"
    /\ image_xmp_file = "closed"
    /\ close_calls = 1

(***************************************************************************)
(* C20: no output file is ever deleted: every file the call has written    *)
(* and every file that was in the output folder before is still there,     *)
(* also after a failure; a successful removal takes the scratch folder     *)
(* only.                                                                   *)
(***************************************************************************)
C20_NoRollback ==
    /\ \A i \in 1..Len(written) : Exists(fs, written[i])
    /\ out0 \subseteq OutputFiles(fs)
    /\ (Done /\ failed_step \notin {"none", "mkdtemp"} /\ rmtree_ok) =>
          ~scratch_dir /\ ~Exists(fs, ScratchTiff)

\* a call has failed at its last validation, after four files were written
C20_Witness ==
    /\ Done
    /\ failed_step = "j_validate_lossy"
    /\ outcome = "ValidationError"
    /\ Len(written) >= 3
    /\ rmtree_ok

(***************************************************************************)
(* C21: the scratch folder is never exposed to the caller.  Every path in  *)
(* the list under construction, and so in the returned list, is a path of  *)
(* the output folder and none is the scratch tiff; the scratch tiff exists *)
(* only while the scratch folder does; and nothing is written under the    *)
(* tiff name of the output folder except the copy include_tiff asks for.   *)
(***************************************************************************)
C21_ScratchNotExposed ==
    /\ \A i \in 1..Len(generated_files) :
          generated_files[i] \in OutPaths /\ generated_files[i] # ScratchTiff
    /\ \A i \in 1..Len(returned) :
          returned[i] \in OutPaths /\ returned[i] # ScratchTiff
    /\ Exists(fs, ScratchTiff) => scratch_dir
    /\ \A i \in 1..Len(written) :
          /\ written[i] \in OutPaths
          /\ written[i] = DEFAULT_TIFF_FILENAME =>
                entry = "tiff" /\ opts.include_tiff

\* a tiff call without include_tiff has made its scratch copy and returned
C21_Witness ==
    /\ Done /\ outcome = "ok"
    /\ entry = "tiff" /\ ~opts.include_tiff
    /\ InSeq(steps, "t_scratch_copy")
    /\ Len(returned) >= 3
    /\ C21_ScratchNotExposed

(***************************************************************************)
(* C22: extract_xmp appends.  The sidecar never loses a packet; after a    *)
(* successful call with save_xmp it is what it was when the call started,  *)
(* followed by one new packet, so a second successful call into the same   *)
(* folder leaves two packets.  Every other derivative the call returns is  *)
(* overwritten: its content is made from the source and the arguments of   *)
(* this call alone, whatever the folder held before.                       *)
(***************************************************************************)
\* the scratch tiff the JP2 derivatives are made from
FreshScratchTiff ==
    IF entry = "jpg" THEN convert_to_tiff(src0, tif_conversion_options)
    ELSE IF opts.repage_image THEN repage_image(src0)
    ELSE src0

\* what a successful call leaves in a derivative other than the sidecar
Overwritten(d) ==
    CASE d = DEFAULT_JPG_FILENAME ->
             {IF entry = "jpg" THEN src0 ELSE convert_to_jpg(src0)}
      [] d = DEFAULT_TIFF_FILENAME -> {src0}
      [] d = DEFAULT_LOSSLESS_JP2_FILENAME ->
             {convert_to_jpeg2000(FreshScratchTiff, faithful, TRUE) :
                 faithful \in BOOLEAN}
      [] d = DEFAULT_LOSSY_JP2_FILENAME ->
             {convert_to_jpeg2000(convert_tiff_colour_profile(FreshScratchTiff),
                                  FALSE, TRUE)}
      [] OTHER -> {}

C22_SidecarAppended ==
    /\ fs[DEFAULT_XMP_FILENAME].packets >= xmp0.packets
    /\ xmp0.kind # "absent" => Exists(fs, DEFAULT_XMP_FILENAME)
    /\ (Done /\ outcome = "ok" /\ opts.save_xmp) =>
          fs[DEFAULT_XMP_FILENAME] = [open_append(xmp0) EXCEPT !.packets = @ + 1]
    /\ (Done /\ outcome = "ok") =>
          \A i \in 1..Len(returned) :
             returned[i] # DEFAULT_XMP_FILENAME =>
                fs[returned[i]] \in Overwritten(returned[i])

\* the second successful call with save_xmp into the same folder: two packets,
\* and the jpeg that was there has been written again
C22_Witness ==
    /\ Done /\ outcome = "ok" /\ opts.save_xmp
    /\ runs = 2
    /\ xmp0.packets = 1
    /\ fs[DEFAULT_XMP_FILENAME].packets = 2
    /\ DEFAULT_JPG_FILENAME \in out0
    /\ InSeq(written, DEFAULT_JPG_FILENAME)

(***************************************************************************)
(* validation.check_image_suitable_for_jp2_conversion, taken on its own:   *)
(* one check of one image.  No call of an entry point is going on.         *)
(***************************************************************************)
\* no call of an entry point is going on
MainIdle ==
    /\ pc = "off"
    /\ entry = "none"
    /\ opts = NoOpts
    /\ source_file = SrcPath
    /\ fs = [p \in Paths |-> NoFile]
    /\ scratch_dir = FALSE
    /\ generated_files = <<>>
    /\ pending = "none"
    /\ failed_step = "none"
    /\ outcome = "none"
    /\ returned = <<>>
    /\ steps = <<>>
    /\ written = <<>>
    /\ rmtree_calls = 0
    /\ rmtree_ok = FALSE
    /\ image_xmp_file = "none"
    /\ xmp = "none"
    /\ close_calls = 0
    /\ src0 = NoFile
    /\ out0 = {}
    /\ xmp0 = NoFile
    /\ runs = 0

ColourModes == {"colour", "greyscale", "bilevel"}

suitable_without_bilevel_exemption(image, mode, allow_no_icc_profile_for_greyscale) ==
    IF image.icc # "none" THEN "ok"
    ELSE IF mode = "greyscale" /\ allow_no_icc_profile_for_greyscale THEN "ok"
    ELSE "ValidationError"

\* bilevel images need no profile; any other image needs one, unless it is
\* greyscale and the caller allows greyscale without profile
check_image_suitable_for_jp2_conversion(image, mode, allow_no_icc_profile_for_greyscale) ==
    IF mode = "bilevel" THEN "ok"
    ELSE IF image.icc # "none" THEN "ok"
    ELSE IF mode = "greyscale" /\ allow_no_icc_profile_for_greyscale THEN "ok"
    ELSE "ValidationError"

InitSuitability ==
    /\ MainIdle
    /\ ConcurrentIdle
    /\ s_image \in SourceImages("tiff") \cup SourceImages("jpg")
    /\ s_mode \in ColourModes
    /\ s_allow \in BOOLEAN
    /\ s_result = "unchecked"

\* one call of the check
check_suitable ==
    /\ s_result = "unchecked"
    /\ s_result' = check_image_suitable_for_jp2_conversion(s_image, s_mode, s_allow)
    /\ UNCHANGED <<mainv, concv, s_image, s_mode, s_allow>>

NextSuitability == check_suitable

SpecSuitability == InitSuitability /\ [][NextSuitability]_vars

(***************************************************************************)
(* C18: the check accepts an image iff it carries a colour profile, or is  *)
(* bilevel, or is greyscale and the relaxation flag is set; it raises      *)
(* ValidationError in every other case.                                    *)
(***************************************************************************)
C18_SuitabilityPolicy ==
    s_result \in {"ok", "ValidationError"} =>
        /\ s_result = "ok" <=>
              \/ s_image.icc # "none"
              \/ s_mode = "bilevel"
              \/ s_mode = "greyscale" /\ s_allow
        /\ (s_mode = "colour" /\ s_image.icc = "none") => s_result = "ValidationError"
        /\ (s_mode = "greyscale" /\ s_image.icc = "none" /\ ~s_allow) =>
              s_result = "ValidationError"

\* a bilevel image without profile has been accepted with the flag unset
C18_Witness ==
    /\ s_result = "ok"
    /\ s_mode = "bilevel"
    /\ s_image.icc = "none"
    /\ ~s_allow


(***************************************************************************)
(* Two calls running at the same time.  Each call is one of the two entry  *)
(* points with its own output folder; the statements of the two calls      *)
(* interleave in every order.  The file system records, for each path,     *)
(* which call wrote it last.                                               *)
(***************************************************************************)

\* the statements inside the try block of the entry points
CStatements == {"t_convert_to_jpg", "g_copy", "x_get_xmp", "x_write",
                "t_include_tiff", "t_scratch_copy", "t_repage",
                "g_convert_to_tiff", "j_lossless", "j_validate_lossless",
                "j_profile", "j_lossy", "j_validate_lossy"}

COut(p, name) == <<Out(p), name>>

\* scratch_tiff_filepath = os.path.join(scratch_output_folder, str(uuid4()) + '.tiff')
CScratchTiff(p) == <<c_scratch[p], Uuid(p)>>

\* the image extract_xmp is given: the source tiff, or the jpeg copy
CXmpImage(p) ==
    IF c_entry[p] = "jpg" THEN COut(p, DEFAULT_JPG_FILENAME) ELSE CSrc

\* the paths the statement reads
CReads(p, st) ==
    CASE st = "t_convert_to_jpg"     -> {CSrc}
      [] st = "g_copy"               -> {CSrc}
      [] st = "x_get_xmp"            -> {CXmpImage(p)}
      [] st = "x_write"              -> {}
      [] st = "t_include_tiff"       -> {CSrc}
      [] st = "t_scratch_copy"       -> {CSrc}
      [] st = "t_repage"             -> {CScratchTiff(p)}
      [] st = "g_convert_to_tiff"    -> {COut(p, DEFAULT_JPG_FILENAME)}
      [] st = "j_lossless"           -> {CScratchTiff(p)}
      [] st = "j_validate_lossless"  -> {COut(p, DEFAULT_LOSSLESS_JP2_FILENAME)}
      [] st = "j_profile"            -> {CScratchTiff(p)}
      [] st = "j_lossy"              -> {CScratchTiff(p)}
      [] st = "j_validate_lossy"     -> {COut(p, DEFAULT_LOSSY_JP2_FILENAME)}
      [] OTHER                       -> {}

\* the paths the statement writes
CWrites(p, st) ==
    CASE st = "t_convert_to_jpg"     -> {COut(p, DEFAULT_JPG_FILENAME)}
      [] st = "g_copy"               -> {COut(p, DEFAULT_JPG_FILENAME)}
      [] st = "x_write"              -> {COut(p, DEFAULT_XMP_FILENAME)}
      [] st = "t_include_tiff"       -> {COut(p, DEFAULT_TIFF_FILENAME)}
      [] st = "t_scratch_copy"       -> {CScratchTiff(p)}
      [] st = "t_repage"             -> {CScratchTiff(p)}
      [] st = "g_convert_to_tiff"    -> {CScratchTiff(p)}
      [] st = "j_lossless"           -> {COut(p, DEFAULT_LOSSLESS_JP2_FILENAME)}
      [] st = "j_profile"            -> {CScratchTiff(p)}
      [] st = "j_lossy"              -> {COut(p, DEFAULT_LOSSY_JP2_FILENAME)}
      [] OTHER                       -> {}

\* the statement after the metadata sidecar, or after the jpeg when there is none
CAfterXmp(p) ==
    IF c_entry[p] = "jpg" THEN "g_convert_to_tiff"
    ELSE IF c_opts[p].include_tiff THEN "t_include_tiff"
    ELSE "t_scratch_copy"

\* the statement that follows when the statement succeeds
CNextPc(p, st) ==
    CASE st \in {"t_convert_to_jpg", "g_copy"} ->
             IF c_opts[p].save_xmp THEN "x_get_xmp" ELSE CAfterXmp(p)
      [] st = "x_get_xmp"            -> "x_write"
      [] st = "x_write"              -> CAfterXmp(p)
      [] st = "t_include_tiff"       -> "t_scratch_copy"
      [] st = "t_scratch_copy"       ->
             IF c_opts[p].repage_image THEN "t_repage" ELSE "j_lossless"
      [] st = "t_repage"             -> "j_lossless"
      [] st = "g_convert_to_tiff"    -> "j_lossless"
      [] st = "j_lossless"           -> "j_validate_lossless"
      [] st = "j_validate_lossless"  -> "j_profile"
      [] st = "j_profile"            -> "j_lossy"
      [] st = "j_lossy"              -> "j_validate_lossy"
      [] st = "j_validate_lossy"     -> "finally"
      [] OTHER                       -> "finally"

\* the folders that belong to the call: its output folder and its scratch folder
COwned(p) ==
    {Out(p)} \cup (IF c_scratch[p] = "none" THEN {} ELSE {c_scratch[p]})

\* the call p reaches into the folders dirs: is one of them the other call's
CTouch(p, dirs) ==
    c_foreign' = (c_foreign \/ dirs \cap COwned(Other(p)) # {})

InitConcurrent ==
    /\ MainIdle
    /\ SuitabilityIdle
    /\ ConcurrentIdle

\* a call to one of the entry points, with its keyword arguments
c_call ==
    \E p \in Calls :
       /\ c_pc[p] = "idle"
       /\ \E e \in {"jpg", "tiff"}, it, sx, rp, strip \in BOOLEAN :
             /\ e = "jpg" => ~it /\ ~rp
             /\ e = "tiff" => ~strip
             /\ c_entry' = [c_entry EXCEPT ![p] = e]
             /\ c_opts' = [c_opts EXCEPT ![p] =
                              [NoOpts EXCEPT !.include_tiff = it, !.save_xmp = sx,
                                             !.repage_image = rp,
                                             !.strip_embedded_metadata = strip]]
       /\ c_pc' = [c_pc EXCEPT ![p] = "mkdtemp"]
       /\ UNCHANGED <<mainv, suitv, c_scratch, c_dirs, c_fs, c_failed, c_result,
                      c_foreign>>

\* a mkdtemp that makes the folder under one fixed name, whether or not it exists
c_mkdtemp_fixed_name ==
    \E p \in Calls :
       /\ c_pc[p] = "mkdtemp"
       /\ \/ /\ c_scratch' = [c_scratch EXCEPT ![p] = "image_ingest_1"]
             /\ c_dirs' = c_dirs \cup {"image_ingest_1"}
             /\ c_pc' = [c_pc EXCEPT ![p] =
                            IF c_entry[p] = "jpg" THEN "g_copy" ELSE "t_convert_to_jpg"]
             /\ UNCHANGED <<c_failed, c_result>>
          \/ /\ c_pc' = [c_pc EXCEPT ![p] = "done"]
             /\ c_failed' = [c_failed EXCEPT ![p] = TRUE]
             /\ c_result' = [c_result EXCEPT ![p] = "error"]
             /\ UNCHANGED <<c_scratch, c_dirs>>
       /\ UNCHANGED <<mainv, suitv, c_entry, c_opts, c_fs, c_foreign>>

\* scratch_output_folder = tempfile.mkdtemp(prefix='image_ingest_'): a folder
\* under a name that does not exist yet, or an error before the try
c_mkdtemp ==
    \E p \in Calls :
       /\ c_pc[p] = "mkdtemp"
       /\ \/ \E d \in TmpNames \ c_dirs :
                /\ c_scratch' = [c_scratch EXCEPT ![p] = d]
                /\ c_dirs' = c_dirs \cup {d}
                /\ c_pc' = [c_pc EXCEPT ![p] =
                               IF c_entry[p] = "jpg" THEN "g_copy" ELSE "t_convert_to_jpg"]
                /\ UNCHANGED <<c_failed, c_result>>
          \/ /\ c_pc' = [c_pc EXCEPT ![p] = "done"]
             /\ c_failed' = [c_failed EXCEPT ![p] = TRUE]
             /\ c_result' = [c_result EXCEPT ![p] = "error"]
             /\ UNCHANGED <<c_scratch, c_dirs>>
       /\ UNCHANGED <<mainv, suitv, c_entry, c_opts, c_fs, c_foreign>>

\* one statement of the try block: it reads and writes its paths and goes on,
\* or it raises and control passes to the finally clause
c_statement ==
    \E p \in Calls :
       /\ c_pc[p] \in CStatements
       /\ CTouch(p, {q[1] : q \in CReads(p, c_pc[p]) \cup CWrites(p, c_pc[p])})
       /\ \/ /\ \A q \in CReads(p, c_pc[p]) : c_fs[q] # "absent"
             /\ c_fs' = [q \in CPaths |->
                            IF q \in CWrites(p, c_pc[p]) THEN p ELSE c_fs[q]]
             /\ c_pc' = [c_pc EXCEPT ![p] = CNextPc(p, c_pc[p])]
             /\ UNCHANGED c_failed
          \/ /\ c_pc' = [c_pc EXCEPT ![p] = "finally"]
             /\ c_failed' = [c_failed EXCEPT ![p] = TRUE]
             /\ UNCHANGED c_fs
       /\ UNCHANGED <<mainv, suitv, c_entry, c_opts, c_scratch, c_dirs, c_result>>

\* finally: shutil.rmtree(scratch_output_folder, ignore_errors=True), then the
\* return value or the pending exception reaches the caller
c_finally ==
    \E p \in Calls :
       /\ c_pc[p] = "finally"
       /\ CTouch(p, {c_scratch[p]})
       /\ \/ /\ c_fs' = [q \in CPaths |->
                            IF q[1] = c_scratch[p] THEN "absent" ELSE c_fs[q]]
             /\ c_dirs' = c_dirs \ {c_scratch[p]}
             /\ c_scratch' = [c_scratch EXCEPT ![p] = "none"]
          \/ UNCHANGED <<c_fs, c_dirs, c_scratch>>
       /\ c_result' = [c_result EXCEPT ![p] = IF c_failed[p] THEN "error" ELSE "ok"]
       /\ c_pc' = [c_pc EXCEPT ![p] = "done"]
       /\ UNCHANGED <<mainv, suitv, c_entry, c_opts, c_failed>>

NextConcurrent ==
    \/ c_call
    \/ c_mkdtemp
    \/ c_statement
    \/ c_finally

SpecConcurrent == InitConcurrent /\ [][NextConcurrent]_vars

\* the derivatives a call that returned has generated
CGenerated(p) ==
    {DEFAULT_JPG_FILENAME, DEFAULT_LOSSLESS_JP2_FILENAME, DEFAULT_LOSSY_JP2_FILENAME}
    \cup (IF c_opts[p].save_xmp THEN {DEFAULT_XMP_FILENAME} ELSE {})
    \cup (IF c_opts[p].include_tiff THEN {DEFAULT_TIFF_FILENAME} ELSE {})

(***************************************************************************)
(* C17: two concurrent calls with distinct output folders do not           *)
(* interfere, whatever the interleaving: their scratch folders differ, no  *)
(* call reaches into a folder of the other, every file a call is about to  *)
(* read in its own folders is the one it wrote itself, and a call that     *)
(* returns leaves exactly its own derivatives, written by itself, in its   *)
(* output folder, as it does when it runs alone.                           *)
(***************************************************************************)
C17_NoInterference ==
    /\ ~c_foreign
    /\ \A p \in Calls :
          /\ c_scratch[p] # "none" =>
                /\ c_scratch[p] # c_scratch[Other(p)]
                /\ c_scratch[p] \in c_dirs
          /\ c_pc[p] \in CStatements =>
                \A q \in CReads(p, c_pc[p]) :
                   c_fs[q] = IF q = CSrc THEN "external" ELSE p
          /\ \A n \in OutPaths : c_fs[COut(p, n)] \in {"absent", p}
          /\ c_result[p] = "ok" =>
                \A n \in OutPaths : c_fs[COut(p, n)] = p <=> n \in CGenerated(p)

\* one call converts its scratch tiff to the lossy JP2 while the other, from
\* the other entry point, validates its lossless JP2
C17_Witness ==
    /\ c_entry["A"] = "tiff" /\ c_pc["A"] = "j_lossy"
    /\ c_entry["B"] = "jpg" /\ c_pc["B"] = "j_validate_lossless"
    /\ c_scratch["A"] # "none" /\ c_scratch["B"] # "none"
    /\ C17_NoInterference

====
